---- MODULE Spec2Model ----
(***************************************************************************)
(* A model of server.js: the pick-submission handler with its lock, the    *)
(* result-ingestion job with its two triggers, user creation and the       *)
(* current-week resolution.  The database tables are sets of rows; every   *)
(* awaited statement of a handler is one atomic step, so the steps of      *)
(* requests in flight interleave as the event loop interleaves them.       *)
(***************************************************************************)
EXTENDS Integers, Sequences, FiniteSets, TLC

\* ---------------------------------------------------------------- bounds
MaxTime == 2     \* the wall clock runs over 0..MaxTime
MaxReq == 2      \* save-picks requests in flight or finished
MaxCreate == 3   \* create-user requests
MaxRuns == 1     \* starts of the ingestion job per trigger
MaxApiChanges == 2  \* times the results API changes a game's scores
MaxWeekRows == 3 \* rows of the weeks table

\* week <= 18 of updateGameResults, scaled to the model
LastWeek == 2

\* SQL NULL, JS null and undefined: the empty sequence.  Values that may be
\* null are one-element sequences, team names are non-empty sequences of
\* characters.
Null == <<>>

\* ---------------------------------------------------------------- text
TeamA == <<"A", "b">>
TeamB == <<"B", "a">>
\* what clients send as picked_team: a name as stored (TeamA, TeamB), or one
\* in another case and with surrounding blanks
TeamALoose == <<" ", "a", "B", " ">>

LowerChar(c) ==
    CASE c = "A" -> "a"
      [] c = "B" -> "b"
      [] OTHER -> c

\* LOWER(s)
Lower(s) == [i \in 1..Len(s) |-> LowerChar(s[i])]

RECURSIVE TrimLeft(_)
TrimLeft(s) == IF s # <<>> /\ Head(s) = " " THEN TrimLeft(Tail(s)) ELSE s

RECURSIVE TrimRight(_)
TrimRight(s) ==
    IF s # <<>> /\ s[Len(s)] = " " THEN TrimRight(SubSeq(s, 1, Len(s) - 1)) ELSE s

\* TRIM(s): blanks removed from both ends
Trim(s) == TrimRight(TrimLeft(s))

\* LOWER(TRIM(picked_team)) = LOWER(TRIM($1)), as the SQL boolean it yields
SameTeam(picked, winner) ==
    IF Lower(Trim(picked)) = Lower(Trim(winner)) THEN "true" ELSE "false"

\* ---------------------------------------------------------------- schedule
\* the fixtures known to the schedule and to the results API
GameIds == {1, 2, 3}

\* the week a fixture belongs to: two fixtures a week
WeekOfGame(g) == (g + 1) \div 2

VARIABLES
    now,          \* the wall clock, new Date()
    games,        \* table games: rows [game_code, week_id, game_date]
    user_picks,   \* table user_picks: rows [user_id, week, game_id, picked_team, is_correct]
    status,       \* table user_week_picks_status: rows [user_id, week, has_picks]
    reqs,         \* the save-picks requests: per request its position and locals
    api,          \* what the results API serves: per fixture its two scores
    apiChanges,   \* how often the API's data changed
    game_results, \* table game_results: one row per upserted fixture
    runs,         \* updateGameResults per trigger: position, locals, outcome
    users,        \* table users: rows [id, username]
    usernameUnique, \* whether the users table has a unique index on username
    creates,      \* the create-user requests
    weeks,        \* table weeks: rows [id, start_date]
    weekNow,      \* the time GET /current-week reads
    weekResp      \* what GET /current-week answered

pickOnly == <<now, games, status, reqs>>
ingestOnly == <<api, apiChanges, game_results, runs>>
userVars == <<users, usernameUnique, creates>>
weekVars == <<weeks, weekNow, weekResp>>
vars == <<user_picks, pickOnly, ingestOnly, userVars, weekVars>>

\* SELECT MIN(game_date) AS first_game FROM games WHERE week_id = $1
FirstGame(week) ==
    LET ds == {row.game_date : row \in {x \in games : x.week_id = week}}
    IN  IF ds = {} THEN Null ELSE <<CHOOSE d \in ds : \A e \in ds : d <= e>>

\* now >= new Date(firstGameDate)
LockedLate(t, first) == t > first[1]
Locked(t, first) == t >= first[1]

\* Object.entries(picks): integer-like keys in ascending order
RECURSIVE Entries(_)
Entries(S) ==
    IF S = {} THEN <<>>
    ELSE LET g == CHOOSE x \in S : \A y \in S : x <= y
         IN  <<g>> \o Entries(S \ {g})

\* INSERT INTO user_picks ... ON CONFLICT (user_id, week, game_id)
\* DO UPDATE SET picked_team = EXCLUDED.picked_team
UpsertPick(table, userId, week, gameId, team) ==
    LET hit == {x \in table : x.user_id = userId /\ x.week = week /\ x.game_id = gameId}
    IN  IF hit = {}
        THEN table \cup {[user_id |-> userId, week |-> week, game_id |-> gameId,
                          picked_team |-> team, is_correct |-> "null"]}
        ELSE (table \ hit) \cup {[x EXCEPT !.picked_team = team] : x \in hit}

\* INSERT INTO user_week_picks_status ... ON CONFLICT (user_id, week)
\* DO UPDATE SET has_picks = TRUE
UpsertStatus(table, userId, week) ==
    LET hit == {x \in table : x.user_id = userId /\ x.week = week}
    IN  (table \ hit) \cup {[user_id |-> userId, week |-> week, has_picks |-> TRUE]}

\* the request bodies the model sends: {userId, week, picks: {gameId: team}}
Body(u, w, p) == [userId |-> u, week |-> w, picks |-> p]
Bodies ==
    { Body(1, 1, (1 :> TeamA)),
      Body(1, 1, (1 :> TeamB) @@ (2 :> TeamA)),
      Body(2, 2, (1 :> TeamB)),
      Body(1, 2, (3 :> TeamB)),
      Body(2, LastWeek + 1, (3 :> TeamA)) }

IdleReq ==
    [pc |-> "idle", userId |-> 0, week |-> 0, picks |-> <<>>, todo |-> <<>>,
     firstGame |-> Null, nowRead |-> Null, resp |-> 0, wrote |-> {}, wroteStatus |-> FALSE]

ReqIds == 1..MaxReq

\* res.status(code).json(...): the handler is over, its locals are gone
Answer(q, code) ==
    [q EXCEPT !.pc = "done", !.resp = code, !.userId = 0, !.picks = <<>>, !.todo = <<>>]

\* new Date() moves on between any two steps
Tick ==
    /\ now < MaxTime
    /\ now' = now + 1
    /\ UNCHANGED <<games, user_picks, status, reqs, ingestOnly, userVars, weekVars>>

\* the request arrives and the handler runs the MIN(game_date) query
SaveSelect(r) ==
    /\ reqs[r].pc = "idle"
    /\ \E b \in Bodies :
         LET first == FirstGame(b.week)
             got == [reqs[r] EXCEPT !.userId = b.userId, !.week = b.week, !.picks = b.picks,
                                    !.todo = Entries(DOMAIN b.picks), !.firstGame = first]
         IN  \/ /\ first = Null
                /\ reqs' = [reqs EXCEPT ![r] = Answer(got, 400)]
             \/ /\ first # Null
                /\ reqs' = [reqs EXCEPT ![r] = [got EXCEPT !.pc = "check"]]
             \/ reqs' = [reqs EXCEPT ![r] = Answer(got, 500)]
    /\ UNCHANGED <<now, games, user_picks, status, ingestOnly, userVars, weekVars>>

\* const now = new Date(); if (now >= new Date(firstGameDate)) return 403
SaveCheck(r) ==
    /\ reqs[r].pc = "check"
    /\ reqs' = [reqs EXCEPT ![r] =
                  IF Locked(now, reqs[r].firstGame)
                  THEN Answer([@ EXCEPT !.nowRead = <<now>>], 403)
                  ELSE [@ EXCEPT !.nowRead = <<now>>,
                                 !.pc = IF reqs[r].todo = <<>> THEN "status" ELSE "upsert"]]
    /\ UNCHANGED <<now, games, user_picks, status, ingestOnly, userVars, weekVars>>

\* one turn of the loop over Object.entries(picks): one upsert
SaveUpsert(r) ==
    /\ reqs[r].pc = "upsert"
    /\ LET q == reqs[r]
           g == Head(q.todo)
       IN  /\ user_picks' = UpsertPick(user_picks, q.userId, q.week, g, q.picks[g])
           /\ reqs' = [reqs EXCEPT ![r] =
                         [@ EXCEPT !.todo = Tail(@),
                                   !.wrote = @ \cup {g},
                                   !.pc = IF Tail(q.todo) = <<>> THEN "status" ELSE "upsert"]]
    /\ UNCHANGED <<now, games, status, ingestOnly, userVars, weekVars>>

\* the status upsert and the 200 answer
SaveStatus(r) ==
    /\ reqs[r].pc = "status"
    /\ status' = UpsertStatus(status, reqs[r].userId, reqs[r].week)
    /\ reqs' = [reqs EXCEPT ![r] = Answer([@ EXCEPT !.wroteStatus = TRUE], 200)]
    /\ UNCHANGED <<now, games, user_picks, ingestOnly, userVars, weekVars>>

\* a statement of the write phase throws: catch, 500
SaveFail(r) ==
    /\ reqs[r].pc \in {"upsert", "status"}
    /\ reqs' = [reqs EXCEPT ![r] = Answer(@, 500)]
    /\ UNCHANGED <<now, games, user_picks, status, ingestOnly, userVars, weekVars>>

\* the schedules the games table may hold: every fixture in its week with a
\* kickoff time, a later week's games not before an earlier week's
Schedules ==
    {{[game_code |-> g, week_id |-> WeekOfGame(g), game_date |-> d[g]] : g \in GameIds} :
       d \in {e \in [GameIds -> 1..MaxTime] :
                \A g, h \in GameIds : WeekOfGame(g) < WeekOfGame(h) => e[g] <= e[h]}}


\* ---------------------------------------------------------------- ingestion
Triggers == {"cron", "manual"}

HomeTeam(g) == IF g = 2 THEN TeamB ELSE TeamA
AwayTeam(g) == IF g = 2 THEN TeamA ELSE TeamB
\* game.fixture.date
KickOff(g) == g

\* what the API reports for a fixture: not played yet (no scores), a home
\* win, an away win, a tie
NotPlayed == <<Null, Null>>
ScorePairs == {NotPlayed, <<<<1>>, <<0>>>>, <<<<0>>, <<1>>>>, <<<<1>>, <<1>>>>}

\* the number JS compares a score as: null counts as 0
Num(x) == IF x = Null THEN 0 ELSE x[1]

\* home.total > away.total ? home.name : away.total > home.total ? away.name : null
Winner(home, away, hs, as) ==
    IF Num(hs) > Num(as) THEN home
    ELSE IF Num(as) > Num(hs) THEN away
    ELSE Null

\* games.map(...) of fetchApiSportsGames for one game of the response
Event(g, week) ==
    [game_code |-> g, week |-> week,
     home_team |-> HomeTeam(g), away_team |-> AwayTeam(g),
     home_score |-> api[g][1], away_score |-> api[g][2],
     winner_team |-> Winner(HomeTeam(g), AwayTeam(g), api[g][1], api[g][2]),
     game_date |-> KickOff(g)]

\* fetchApiSportsGames(season, week) when the request succeeds
Fetch(week) ==
    LET ids == Entries({g \in GameIds : WeekOfGame(g) = week})
    IN  [i \in 1..Len(ids) |-> Event(ids[i], week)]

\* INSERT INTO game_results ... ON CONFLICT (game_id) DO UPDATE SET
\* home_score, away_score, winner_team, game_date, updated_at = NOW().
\* rowid tells physical rows apart; updated_at records which expression
\* set it, the column default or NOW().
InsertResult(table, e) ==
    table \cup {[rowid |-> Cardinality(table) + 1,
                 game_id |-> e.game_code, week |-> e.week,
                 home_team |-> e.home_team, away_team |-> e.away_team,
                 home_score |-> e.home_score, away_score |-> e.away_score,
                 winner_team |-> e.winner_team, game_date |-> e.game_date,
                 updated_at |-> "default"]}
UpsertResultBlind(table, e) == InsertResult(table, e)
UpsertResult(table, e) ==
    LET hit == {x \in table : x.game_id = e.game_code}
    IN  IF hit = {}
        THEN InsertResult(table, e)
        ELSE (table \ hit) \cup
             {[x EXCEPT !.home_score = e.home_score, !.away_score = e.away_score,
                        !.winner_team = e.winner_team, !.game_date = e.game_date,
                        !.updated_at = "now"] : x \in hit}

\* UPDATE user_picks SET is_correct = (LOWER(TRIM(picked_team)) = LOWER(TRIM($1)))
\* WHERE game_id = $2
MarkPicksTrueOnly(table, winner, gameId) ==
    {IF x.game_id = gameId /\ SameTeam(x.picked_team, winner) = "true"
     THEN [x EXCEPT !.is_correct = "true"] ELSE x : x \in table}
MarkPicks(table, winner, gameId) ==
    {IF x.game_id = gameId
     THEN [x EXCEPT !.is_correct = SameTeam(x.picked_team, winner)] ELSE x : x \in table}

IdleRun ==
    [pc |-> "idle", week |-> 0, events |-> <<>>, n |-> 0, resp |-> 0,
     fetchFails |-> 0, dbFail |-> "none",
     skipped |-> {}, processed |-> {}]

\* updateGameResults returns (normally, also after its catch); the manual
\* trigger then answers 200
Returned(t, q) ==
    [q EXCEPT !.pc = "done", !.events = <<>>, !.resp = IF t = "manual" THEN 200 ELSE 0]

\* the loops move on: the next event of the week, the next week, or the end
Advance(t, q, rest) ==
    IF rest # <<>> THEN [q EXCEPT !.pc = "upsert", !.events = rest]
    ELSE IF q.week < LastWeek THEN [q EXCEPT !.pc = "fetch", !.events = <<>>, !.week = @ + 1]
    ELSE Returned(t, [q EXCEPT !.week = @ + 1])

GamesOf(events) == {events[i].game_code : i \in 1..Len(events)}

\* the trigger fires and pool.connect() hands out a client
RunStart(t) ==
    /\ runs[t].pc \in {"idle", "done"}
    /\ runs[t].n < MaxRuns
    /\ runs' = [runs EXCEPT ![t] =
                  [IdleRun EXCEPT !.n = runs[t].n + 1, !.pc = "fetch", !.week = 1]]
    /\ UNCHANGED <<user_picks, pickOnly, api, apiChanges, game_results, userVars, weekVars>>

\* the trigger fires and pool.connect() rejects: updateGameResults throws
\* before its try, the manual handler's catch answers 500
RunConnectFail(t) ==
    /\ runs[t].pc \in {"idle", "done"}
    /\ runs[t].n < MaxRuns
    /\ runs' = [runs EXCEPT ![t] =
                  [IdleRun EXCEPT !.n = runs[t].n + 1, !.pc = "done", !.dbFail = "connect",
                                  !.resp = IF t = "manual" THEN 500 ELSE 0]]
    /\ UNCHANGED <<user_picks, pickOnly, api, apiChanges, game_results, userVars, weekVars>>

\* const events = await fetchApiSportsGames(season, week)
RunFetch(t) ==
    /\ runs[t].pc = "fetch"
    /\ runs' = [runs EXCEPT ![t] = Advance(t, @, Fetch(runs[t].week))]
    /\ UNCHANGED <<user_picks, pickOnly, api, apiChanges, game_results, userVars, weekVars>>

\* axios.get throws: fetchApiSportsGames logs and returns []
RunFetchFail(t) ==
    /\ runs[t].pc = "fetch"
    /\ LET q == [runs[t] EXCEPT !.fetchFails = @ + 1,
                                !.skipped = @ \cup GamesOf(Fetch(runs[t].week))]
       IN  runs' = [runs EXCEPT ![t] = Advance(t, q, <<>>)]
    /\ UNCHANGED <<user_picks, pickOnly, api, apiChanges, game_results, userVars, weekVars>>

\* the upsert of one event
RunUpsert(t) ==
    /\ runs[t].pc = "upsert"
    /\ LET e == Head(runs[t].events)
           q == runs[t]
       IN  /\ game_results' = UpsertResult(game_results, e)
           /\ runs' = [runs EXCEPT ![t] =
                         IF e.winner_team # Null
                         THEN [q EXCEPT !.pc = "mark"]
                         ELSE Advance(t, [q EXCEPT !.processed = @ \cup {e.game_code}],
                                      Tail(q.events))]
    /\ UNCHANGED <<user_picks, pickOnly, api, apiChanges, userVars, weekVars>>

\* if (event.winner_team): the UPDATE of the game's picks
RunMark(t) ==
    /\ runs[t].pc = "mark"
    /\ LET e == Head(runs[t].events)
           q == [runs[t] EXCEPT !.processed = @ \cup {e.game_code}]
       IN  /\ user_picks' = MarkPicks(user_picks, e.winner_team, e.game_code)
           /\ runs' = [runs EXCEPT ![t] = Advance(t, q, Tail(q.events))]
    /\ UNCHANGED <<pickOnly, api, apiChanges, game_results, userVars, weekVars>>

\* client.query throws: the catch around both loops logs, finally releases
\* the client, and updateGameResults returns
RunDbFail(t) ==
    /\ runs[t].pc \in {"upsert", "mark"}
    /\ runs' = [runs EXCEPT ![t] =
                  Returned(t, [@ EXCEPT !.dbFail = "statement",
                                        !.skipped = @ \cup {Head(runs[t].events).game_code}])]
    /\ UNCHANGED <<user_picks, pickOnly, api, apiChanges, game_results, userVars, weekVars>>

\* the provider reports new scores for a fixture
ApiChange ==
    /\ apiChanges < MaxApiChanges
    /\ \E g \in GameIds, sp \in ScorePairs :
         /\ sp # api[g]
         /\ api' = [api EXCEPT ![g] = sp]
    /\ apiChanges' = apiChanges + 1
    /\ UNCHANGED <<user_picks, pickOnly, game_results, runs, userVars, weekVars>>

\* ---------------------------------------------------------------- users
Usernames == {"alice", "bob"}
CreateIds == 1..MaxCreate

\* SELECT * FROM users WHERE username = $1 (an exact, case-sensitive match)
UserRows(table, name) == {x \in table : x.username = name}

\* INSERT INTO users (username) VALUES ($1) RETURNING *: the new row with the
\* next serial id
InsertUser(table, name) ==
    table \cup {[id |-> Cardinality(table) + 1, username |-> name]}

IdleCreate == [pc |-> "idle", username |-> "", resp |-> 0]

\* the request arrives, the handler runs its SELECT and answers 409 when it
\* finds a row
CreateSelect(c) ==
    /\ creates[c].pc = "idle"
    /\ \E name \in Usernames :
         creates' = [creates EXCEPT ![c] =
                       IF UserRows(users, name) # {}
                       THEN [pc |-> "done", username |-> name, resp |-> 409]
                       ELSE [pc |-> "insert", username |-> name, resp |-> 0]]
    /\ UNCHANGED <<users, usernameUnique, user_picks, pickOnly, ingestOnly, weekVars>>

\* the INSERT and the 201 answer; with a unique index on username a second
\* row is refused, the statement throws and the catch answers 500
CreateInsert(c) ==
    /\ creates[c].pc = "insert"
    /\ IF usernameUnique /\ UserRows(users, creates[c].username) # {}
       THEN /\ creates' = [creates EXCEPT ![c] = [@ EXCEPT !.pc = "done", !.resp = 500]]
            /\ users' = users
       ELSE /\ users' = InsertUser(users, creates[c].username)
            /\ creates' = [creates EXCEPT ![c] = [@ EXCEPT !.pc = "done", !.resp = 201]]
    /\ UNCHANGED <<usernameUnique, user_picks, pickOnly, ingestOnly, weekVars>>

\* ---------------------------------------------------------------- current week
WeekRowIds == 1..MaxWeekRows

\* the orders ORDER BY start_date ASC may return the rows in
Ordered(table) ==
    {q \in [1..Cardinality(table) -> table] :
       /\ \A i, j \in DOMAIN q : i # j => q[i] # q[j]
       /\ \A i, j \in DOMAIN q : i < j => q[i].start_date <= q[j].start_date}

\* the for loop of /current-week from index i on
RECURSIVE ScanFirstFuture(_, _, _, _)
ScanFirstFuture(rows, i, t, current) ==
    IF i > Len(rows) THEN current
    ELSE IF t >= rows[i].start_date THEN ScanFirstFuture(rows, i + 1, t, current)
    ELSE rows[i].id
RECURSIVE ScanWeeks(_, _, _, _)
ScanWeeks(rows, i, t, current) ==
    IF i > Len(rows) THEN current
    ELSE IF t >= rows[i].start_date THEN ScanWeeks(rows, i + 1, t, rows[i].id)
    ELSE current

\* GET /current-week: {currentWeek: null} without rows, else the scan
\* starting from the first row's id
CurrentWeek ==
    /\ weekResp = <<>>
    /\ \E rows \in Ordered(weeks) :
         weekResp' = <<IF Len(rows) = 0 THEN Null
                       ELSE <<ScanWeeks(rows, 1, weekNow, rows[1].id)>> >>
    /\ UNCHANGED <<weeks, weekNow, user_picks, pickOnly, ingestOnly, userVars>>

\* ---------------------------------------------------------------- specifications
\* a schedule with every week's games at the week's number
PlainSchedule ==
    {[game_code |-> g, week_id |-> WeekOfGame(g), game_date |-> WeekOfGame(g)] : g \in GameIds}

\* the rows a finished save-picks request leaves behind
RECURSIVE Saved(_, _, _)
Saved(table, b, todo) ==
    IF todo = <<>> THEN table
    ELSE Saved(UpsertPick(table, b.userId, b.week, Head(todo), b.picks[Head(todo)]),
               b, Tail(todo))
RECURSIVE SavedAll(_, _)
SavedAll(table, bs) ==
    IF bs = <<>> THEN table
    ELSE SavedAll(Saved(table, Head(bs), Entries(DOMAIN Head(bs).picks)), Tail(bs))

\* the picks on file when the job runs
PickTables ==
    { SavedAll({}, << Body(1, 1, (1 :> TeamA) @@ (2 :> TeamA)),
                      Body(2, 1, (1 :> TeamALoose) @@ (2 :> TeamB)),
                      Body(1, 2, (1 :> TeamB) @@ (3 :> TeamB)) >>),
      SavedAll({}, << Body(1, 1, (1 :> TeamB)),
                      Body(2, 2, (3 :> <<"a", "b">>)) >>) }

NoPicks == /\ now = 0 /\ games = PlainSchedule /\ status = {}
           /\ reqs = [r \in ReqIds |-> IdleReq]
NoIngest == /\ api = [g \in GameIds |-> NotPlayed] /\ apiChanges = 0
            /\ game_results = {} /\ runs = [t \in Triggers |-> IdleRun]
NoUsers == /\ users = {} /\ usernameUnique = TRUE
           /\ creates = [c \in CreateIds |-> IdleCreate]
NoWeeks == /\ weeks = {} /\ weekNow = 0 /\ weekResp = <<>>

\* pick submission against the clock
Init ==
    /\ now = 0
    /\ games \in Schedules
    /\ user_picks = {}
    /\ status = {}
    /\ reqs = [r \in ReqIds |-> IdleReq]
    /\ NoIngest /\ NoUsers /\ NoWeeks

Next ==
    \/ Tick
    \/ \E r \in ReqIds : SaveSelect(r)
    \/ \E r \in ReqIds : SaveCheck(r)
    \/ \E r \in ReqIds : SaveUpsert(r)
    \/ \E r \in ReqIds : SaveStatus(r)
    \/ \E r \in ReqIds : SaveFail(r)

Spec == Init /\ [][Next]_vars

\* the ingestion job under both triggers, with failures and a changing API
InitIngest ==
    /\ user_picks \in PickTables
    /\ NoPicks /\ NoIngest /\ NoUsers /\ NoWeeks

NextIngest ==
    \/ ApiChange
    \/ \E t \in Triggers : RunStart(t)
    \/ \E t \in Triggers : RunConnectFail(t)
    \/ \E t \in Triggers : RunFetch(t)
    \/ \E t \in Triggers : RunFetchFail(t)
    \/ \E t \in Triggers : RunUpsert(t)
    \/ \E t \in Triggers : RunMark(t)
    \/ \E t \in Triggers : RunDbFail(t)

SpecIngest == InitIngest /\ [][NextIngest]_vars

\* the job over every state of the API, held fixed, when nothing fails
ApiStates == [GameIds -> ScorePairs]

InitIdem ==
    /\ user_picks \in PickTables
    /\ api \in ApiStates
    /\ apiChanges = 0
    /\ game_results = {}
    /\ runs = [t \in Triggers |-> IdleRun]
    /\ NoPicks /\ NoUsers /\ NoWeeks

NextIdem ==
    \/ \E t \in Triggers : RunStart(t)
    \/ \E t \in Triggers : RunFetch(t)
    \/ \E t \in Triggers : RunUpsert(t)
    \/ \E t \in Triggers : RunMark(t)

SpecIdem == InitIdem /\ [][NextIdem]_vars

\* the job under both triggers with a changing API, when nothing fails
InitNoFail == InitIngest

NextNoFail ==
    \/ ApiChange
    \/ \E t \in Triggers : RunStart(t)
    \/ \E t \in Triggers : RunFetch(t)
    \/ \E t \in Triggers : RunUpsert(t)
    \/ \E t \in Triggers : RunMark(t)

SpecNoFail == InitNoFail /\ [][NextNoFail]_vars

\* create-user requests
InitUsers ==
    /\ users = {}
    /\ usernameUnique \in BOOLEAN
    /\ creates = [c \in CreateIds |-> IdleCreate]
    /\ user_picks = {}
    /\ NoPicks /\ NoIngest /\ NoWeeks

NextUsers ==
    \/ \E c \in CreateIds : CreateSelect(c)
    \/ \E c \in CreateIds : CreateInsert(c)

SpecUsers == InitUsers /\ [][NextUsers]_vars

\* GET /current-week over every weeks table and time
WeekTables ==
    UNION {{{[id |-> i, start_date |-> d[i]] : i \in S} : d \in [S -> 1..(MaxTime + 1)]} :
             S \in SUBSET WeekRowIds}

InitWeek ==
    /\ weeks \in WeekTables
    /\ weekNow \in 0..(MaxTime + 2)
    /\ weekResp = <<>>
    /\ user_picks = {}
    /\ NoPicks /\ NoIngest /\ NoUsers

NextWeek == CurrentWeek

SpecWeek == InitWeek /\ [][NextWeek]_vars

\* ---------------------------------------------------------------- properties
\* week W has started at time t: some game of W has its game_date at or before t
Started(week, t) == \E x \in games : x.week_id = week /\ x.game_date <= t
HasGames(week) == \E x \in games : x.week_id = week

\* C1: a save-picks request for a week with games that met no database error
\* answers 200 exactly when the time it read is before every game_date of the
\* week; read at or after the earliest one it answers 403 and has written
\* no user_picks row and no status row.
C1_LockDecidesAnswer ==
    \A r \in ReqIds :
       LET q == reqs[r]
       IN  (q.pc = "done" /\ q.resp # 500 /\ HasGames(q.week)) =>
             /\ q.nowRead # Null
             /\ (q.resp = 200) <=> ~Started(q.week, q.nowRead[1])
             /\ Started(q.week, q.nowRead[1]) =>
                   (q.resp = 403 /\ q.wrote = {} /\ ~q.wroteStatus)

\* a week for which one request was answered 200 with its status row written
\* and a later one 403
C1_Witness ==
    \E r1, r2 \in ReqIds :
       /\ reqs[r1].resp = 200 /\ reqs[r1].wrote # {} /\ reqs[r1].wroteStatus
       /\ reqs[r2].resp = 403 /\ reqs[r2].week = reqs[r1].week

\* the row is new, or its picked_team differs from the one on file
PickChanged(row) ==
    ~ \E old \in user_picks :
         /\ old.user_id = row.user_id /\ old.week = row.week /\ old.game_id = row.game_id
         /\ old.picked_team = row.picked_team

\* C2: no user_picks row of week W is inserted and no picked_team of such a
\* row changes in a step taken while the clock is at or after W's earliest
\* game_date, whatever the interleaving of requests and clock.
C2_NoWriteAfterLock ==
    [][\A row \in user_picks' : PickChanged(row) => ~Started(row.week, now)]_vars

\* C3: no request writes a pick for a game G of week W when the time it read
\* is at or after W's earliest game_date, whatever week its body names.
C3_NoWriteForStartedGame ==
    \A r \in ReqIds : \A g \in reqs[r].wrote : \A x \in games :
       x.game_code = g => ~Started(x.week_id, reqs[r].nowRead[1])

\* C4: of the create-user requests for one username, once all are answered,
\* exactly one got 201 and the others 409, and the table never holds two
\* rows with the username.
C4_OneCreatedOthersConflict ==
    \A name \in Usernames :
       LET sent == {c \in CreateIds : creates[c].pc # "idle" /\ creates[c].username = name}
           done == {c \in sent : creates[c].pc = "done"}
       IN  /\ Cardinality(UserRows(users, name)) <= 1
           /\ (sent # {} /\ done = sent) =>
                 /\ Cardinality({c \in done : creates[c].resp = 201}) = 1
                 /\ \A c \in done : creates[c].resp \in {201, 409}

\* the columns of a game_results row other than updated_at (and the row's
\* physical identity)
Columns(x) ==
    [game_id |-> x.game_id, week |-> x.week, home_team |-> x.home_team,
     away_team |-> x.away_team, home_score |-> x.home_score, away_score |-> x.away_score,
     winner_team |-> x.winner_team, game_date |-> x.game_date]

\* the same columns as a fetched event carries them
EventColumns(e) ==
    [game_id |-> e.game_code, week |-> e.week, home_team |-> e.home_team,
     away_team |-> e.away_team, home_score |-> e.home_score, away_score |-> e.away_score,
     winner_team |-> e.winner_team, game_date |-> e.game_date]

\* one run of the job alone, start to end, on the two tables
RECURSIVE RunEvents(_, _)
RunEvents(db, events) ==
    IF events = <<>> THEN db
    ELSE LET e == Head(events)
             up == [db EXCEPT !.results = UpsertResult(@, e)]
         IN  RunEvents(IF e.winner_team # Null
                       THEN [up EXCEPT !.picks = MarkPicks(@, e.winner_team, e.game_code)]
                       ELSE up,
                       Tail(events))
RECURSIVE RunWeeks(_, _)
RunWeeks(db, week) ==
    IF week > LastWeek THEN db ELSE RunWeeks(RunEvents(db, Fetch(week)), week + 1)

SingleRun ==
    RunWeeks([results |-> {},
              picks |-> {[x EXCEPT !.is_correct = "null"] : x \in user_picks}], 1)

Quiet == \A t \in Triggers : runs[t].pc \in {"idle", "done"}

\* C5: when runs of the job, one after the other or overlapping, have ended
\* over the same fetched data, game_results holds exactly one row per
\* game_id, its columns other than updated_at are those of the fetched
\* event, and both tables are as a single run leaves them.
C5_Idempotent ==
    (Quiet /\ \E t \in Triggers : runs[t].pc = "done") =>
       /\ \A g \in GameIds : Cardinality({x \in game_results : x.game_id = g}) = 1
       /\ \A x \in game_results :
             Columns(x) = EventColumns(Event(x.game_id, WeekOfGame(x.game_id)))
       /\ {Columns(x) : x \in game_results} = {Columns(x) : x \in SingleRun.results}
       /\ user_picks = SingleRun.picks

\* both triggers ran to their end, a row was upserted a second time and a
\* pick was marked
C5_Witness ==
    /\ \A t \in Triggers : runs[t].pc = "done"
    /\ \E x \in game_results : x.updated_at = "now"
    /\ \E p \in user_picks : p.is_correct = "true"

\* C6: a stored result with equal or missing scores has winner_team null and
\* no pick for its game is marked correct.
C6_TieNeverCorrect ==
    \A x \in game_results :
       (x.home_score = Null \/ x.away_score = Null \/ x.home_score = x.away_score) =>
          /\ x.winner_team = Null
          /\ \A p \in user_picks : p.game_id = x.game_id => p.is_correct # "true"

\* C7: /current-week answers null without weeks, a week of least start_date
\* when the time read is before every start_date, and otherwise a week whose
\* start_date is the greatest one not after the time read.
C7_CurrentWeek ==
    weekResp # <<>> =>
       LET r == weekResp[1]
           past == {w \in weeks : w.start_date <= weekNow}
       IN  /\ weeks = {} => r = Null
           /\ (weeks # {} /\ past = {}) =>
                 /\ r # Null
                 /\ \E w \in weeks : w.id = r[1] /\ \A v \in weeks : w.start_date <= v.start_date
           /\ past # {} =>
                 /\ r # Null
                 /\ \E w \in past : w.id = r[1] /\ \A v \in past : v.start_date <= w.start_date

\* a week that has begun, later weeks that have not, and the answer is the
\* begun one though it is not the first row
C7_Witness ==
    /\ weekResp # <<>>
    /\ \E u, w, v \in weeks :
         /\ u.start_date < w.start_date /\ w.start_date <= weekNow /\ weekNow < v.start_date
         /\ weekResp[1] = <<w.id>>

\* C8: a run that met exactly one failure, of a fetch or of a statement, has
\* at its end processed every game but those of the failed fetch's week or
\* the game of the failed statement.
C8_FailureDoesNotAbort ==
    \A t \in Triggers :
       LET q == runs[t]
       IN  (/\ q.pc = "done"
            /\ q.dbFail # "connect"
            /\ q.fetchFails + (IF q.dbFail = "statement" THEN 1 ELSE 0) = 1) =>
              (GameIds \ q.skipped) \subseteq q.processed

\* C9: the UPDATE for a fetched game with a winner leaves every pick of that
\* game_id with is_correct true when its picked_team, lowercased and trimmed,
\* equals the winner lowercased and trimmed, and false otherwise; the picks
\* of other games stay as they are and no row appears or disappears.
C9_MarkSetsEveryPick ==
    [][\A t \in Triggers :
         (runs[t].pc = "mark" /\ runs'[t] # runs[t]) =>
           LET e == Head(runs[t].events)
           IN  /\ Cardinality(user_picks') = Cardinality(user_picks)
               /\ \A x \in user_picks :
                     IF x.game_id = e.game_code
                     THEN [x EXCEPT !.is_correct =
                             IF Lower(Trim(x.picked_team)) = Lower(Trim(e.winner_team))
                             THEN "true" ELSE "false"] \in user_picks'
                     ELSE x \in user_picks']_vars

\* picks of one game and different users and weeks: one that names the
\* winner in another case and with blanks is true, another is false
C9_Witness ==
    \E x, y \in user_picks :
       /\ x.game_id = y.game_id /\ x.user_id # y.user_id
       /\ x.picked_team = TeamALoose /\ x.is_correct = "true"
       /\ y.is_correct = "false"
       /\ \E z \in game_results : z.game_id = x.game_id /\ z.winner_team = TeamA

\* C10: the manual trigger answers 200 exactly when its run met no failure of
\* the database or of the API, and 500 otherwise.
C10_FailureAnswers500 ==
    LET q == runs["manual"]
    IN  q.pc = "done" =>
          /\ (q.resp = 200) <=> (q.fetchFails = 0 /\ q.dbFail = "none")
          /\ q.resp \in {200, 500}
====
